---- MODULE Spec2Model ----
(***************************************************************************)
(* Model of src/main.py of weatherbcn-bot: one run of                      *)
(* analyze_day_forecast (called from the __main__ block), with             *)
(* compute_hour_conditions and send_telegram_message.                      *)
(*                                                                         *)
(* Python strings are sequences of one-character strings, so that          *)
(* str.split, int(), float() and the f"{h:02d}" formatting are computed    *)
(* rather than assumed.  Cloud fractions are kept in tenths and sky        *)
(* scores in hundredths (0.6*na is 6*na10 hundredths); every product the   *)
(* table can produce is far from the 0.5 threshold, so binary floating     *)
(* point rounding cannot change a comparison.                              *)
(***************************************************************************)
EXTENDS Integers, Sequences, FiniteSets, TLC

VARIABLES
    now_hour,          \* now.hour, line 114
    local_date,        \* now.date(), line 115
    forecast_json,     \* forecast_json[0]['prediccion']['dia'], line 117
    pc,                \* position in analyze_day_forecast / __main__
    dia_obj,           \* line 118
    orto_hour,         \* line 124
    ocaso_hour,        \* line 125
    sky_hours,         \* lines 128-135
    rain_hours,        \* line 140
    hourly_entries,    \* lines 143-151
    sky_scores,        \* line 157
    rain_scores,       \* line 158
    details,           \* line 159
    sky_alert_hours,   \* line 162
    rain_alert_hours,  \* lines 165-174
    sent_text,         \* one entry per call of send_telegram_message, line 183
    log,               \* logger records, in order
    exc                \* exception that left analyze_day_forecast, or "None"

vars == <<now_hour, local_date, forecast_json, pc, dia_obj, orto_hour, ocaso_hour,
          sky_hours, rain_hours, hourly_entries, sky_scores, rain_scores, details,
          sky_alert_hours, rain_alert_hours, sent_text, log, exc>>

----------------------------------------------------------------------------
(* Python values and builtins                                              *)

\* a dict key that is not there
Missing == [k |-> "missing"]

\* a str value
Str(s) == [k |-> "str", s |-> s]

\* None, as the default of next(..., None)
None == [k |-> "none"]

Digits == <<"0", "1", "2", "3", "4", "5", "6", "7", "8", "9">>

IsDigit(c) == \E d \in 1..10 : Digits[d] = c

DigitVal(c) == (CHOOSE d \in 1..10 : Digits[d] = c) - 1

DigitChar(d) == Digits[d + 1]

AllDigits(s) == \A i \in 1..Len(s) : IsDigit(s[i])

RECURSIVE DigitsVal(_)
DigitsVal(s) ==
    IF s = <<>> THEN 0
    ELSE DigitsVal(SubSeq(s, 1, Len(s) - 1)) * 10 + DigitVal(s[Len(s)])

\* list(range(a, b))
Range(a, b) == [i \in 1..(IF b > a THEN b - a ELSE 0) |-> a + i - 1]

SeqToSet(s) == {s[i] : i \in DOMAIN s}

\* sorted(S) for a set of integers
RECURSIVE Sorted(_)
Sorted(S) ==
    IF S = {} THEN <<>>
    ELSE LET m == CHOOSE x \in S : \A y \in S : x <= y
         IN  <<m>> \o Sorted(S \ {m})

Max(a, b) == IF a >= b THEN a ELSE b

Min(a, b) == IF a <= b THEN a ELSE b

\* s.strip() for blanks
RECURSIVE Strip(_)
Strip(s) ==
    IF s # <<>> /\ s[1] = " " THEN Strip(Tail(s))
    ELSE IF s # <<>> /\ s[Len(s)] = " " THEN Strip(SubSeq(s, 1, Len(s) - 1))
    ELSE s

\* s.split(":")[0]: the part of s before its first ':' (all of s if none)
RECURSIVE PartBeforeColon(_)
PartBeforeColon(s) ==
    IF s = <<>> \/ s[1] = ":" THEN <<>>
    ELSE <<s[1]>> \o PartBeforeColon(Tail(s))

\* int(s) for a str: blanks stripped, an optional sign, then decimal digits;
\* anything else is a ValueError (ok = FALSE)
PyInt(s) ==
    LET t    == Strip(s)
        neg  == t # <<>> /\ t[1] = "-"
        body == IF t # <<>> /\ t[1] \in {"-", "+"} THEN Tail(t) ELSE t
    IN  IF body # <<>> /\ AllDigits(body)
        THEN [ok |-> TRUE, val |-> IF neg THEN 0 - DigitsVal(body) ELSE DigitsVal(body)]
        ELSE [ok |-> FALSE, val |-> 0]

\* index of the first '.' of s, or 0
DotAt(s) ==
    IF \E i \in 1..Len(s) : s[i] = "."
    THEN CHOOSE i \in 1..Len(s) : s[i] = "." /\ \A j \in 1..(i - 1) : s[j] # "."
    ELSE 0

RECURSIVE Pow10(_)
Pow10(n) == IF n = 0 THEN 1 ELSE 10 * Pow10(n - 1)

\* float(v) as called on line 60.  v is Missing when the entry has no 'value'
\* (dict.get then yields the int 0), None for a JSON null (TypeError), or a
\* str: blanks stripped, optional sign, then "nan", "inf" or digits with an
\* optional fraction.  The result is num / 10^scale; cls tells nan and inf
\* apart from finite numbers.  Exponent notation is not modelled and no
\* input of the model uses it.
PyFloat(v) ==
    IF v.k = "missing" THEN [ok |-> TRUE, cls |-> "num", num |-> 0, scale |-> 0]
    ELSE IF v.k # "str" THEN [ok |-> FALSE, cls |-> "err", num |-> 0, scale |-> 0]
    ELSE
    LET t    == Strip(v.s)
        neg  == t # <<>> /\ t[1] = "-"
        body == IF t # <<>> /\ t[1] \in {"-", "+"} THEN Tail(t) ELSE t
        d    == DotAt(body)
        ip   == IF d = 0 THEN body ELSE SubSeq(body, 1, d - 1)
        fp   == IF d = 0 THEN <<>> ELSE SubSeq(body, d + 1, Len(body))
        mag  == DigitsVal(ip) * Pow10(Len(fp)) + DigitsVal(fp)
    IN  IF body = <<"n", "a", "n">>
        THEN [ok |-> TRUE, cls |-> "nan", num |-> 0, scale |-> 0]
        ELSE IF body = <<"i", "n", "f">>
        THEN [ok |-> TRUE, cls |-> "inf", num |-> IF neg THEN 0 - 1 ELSE 1, scale |-> 0]
        ELSE IF AllDigits(ip) /\ AllDigits(fp) /\ Len(ip) + Len(fp) > 0
        THEN [ok |-> TRUE, cls |-> "num", num |-> IF neg THEN 0 - mag ELSE mag,
              scale |-> Len(fp)]
        ELSE [ok |-> FALSE, cls |-> "err", num |-> 0, scale |-> 0]

\* f"{h:02d}"
Fmt02(h) ==
    LET a  == IF h < 0 THEN 0 - h ELSE h
        ds == IF a < 10 THEN <<DigitChar(a)>>
              ELSE <<DigitChar(a \div 10), DigitChar(a % 10)>>
    IN  IF h < 0 THEN <<"-">> \o ds
        ELSE IF Len(ds) < 2 THEN <<"0">> \o ds
        ELSE ds

\* next((e for e in entries if e['periodo'] == ph), None)
FirstByPeriodo(entries, ph) ==
    IF \E i \in 1..Len(entries) : entries[i].periodo = ph
    THEN entries[CHOOSE i \in 1..Len(entries) :
                    /\ entries[i].periodo = ph
                    /\ \A j \in 1..(i - 1) : entries[j].periodo # ph]
    ELSE None

----------------------------------------------------------------------------
(* Module constants of main.py                                             *)

ZeroClouds == [alta |-> 0, media |-> 0, baja |-> 0]

\* fractions in tenths
AEMET_CLOUD_MAPPING ==
    LET keys == {<<"1", "1">>, <<"1", "1", "n">>, <<"1", "2">>, <<"1", "2", "n">>,
                 <<"1", "7">>, <<"1", "7", "n">>, <<"1", "8">>, <<"1", "8", "n">>,
                 <<"1", "9">>, <<"1", "9", "n">>}
    IN  [c \in keys |->
            IF c[2] = "1" THEN [alta |-> 0, media |-> 0, baja |-> 0]
            ELSE IF c[2] = "2" THEN [alta |-> 0, media |-> 2, baja |-> 0]
            ELSE IF c[2] = "7" THEN [alta |-> 10, media |-> 0, baja |-> 0]
            ELSE IF c[2] = "8" THEN [alta |-> 0, media |-> 10, baja |-> 0]
            ELSE [alta |-> 0, media |-> 0, baja |-> 10]]

\* 0.5, in hundredths
SCORE_THRESHOLD == 50

DefaultOrto == <<"0", "7", ":", "0", "0">>

DefaultOcaso == <<"1", "7", ":", "0", "0">>

RainFloorHour == 8

rain_end_hour == 22

LastHour == 23

----------------------------------------------------------------------------
(* compute_hour_conditions, lines 51-80                                    *)

\* lines 52-57
CloudVals(hour_entry) ==
    IF hour_entry.estadoCielo = <<>> THEN ZeroClouds
    ELSE LET v    == hour_entry.estadoCielo[1].value
             code == IF v.k = "str" THEN v.s ELSE <<>>
         IN  IF code \in DOMAIN AEMET_CLOUD_MAPPING
             THEN AEMET_CLOUD_MAPPING[code]
             ELSE ZeroClouds

\* 0.0
Float0 == [ok |-> TRUE, cls |-> "num", num |-> 0, scale |-> 0]

\* lines 59-62: the bare except turns every failure into 0.0
Precip(hour_entry) ==
    IF hour_entry.precipitacion = <<>> THEN Float0
    ELSE LET f == PyFloat(hour_entry.precipitacion[1].value)
         IN  IF f.ok THEN f ELSE Float0

\* lines 67-68 with low cloud counted in favour
SkyScoreLowCloudAdds(cv) ==
    Max(0, Min(100, 6 * cv.alta + 3 * cv.media + 8 * cv.baja))

\* lines 67-68, in hundredths
SkyScore(cv) ==
    LET raw == 6 * cv.alta + 3 * cv.media - 8 * cv.baja
    IN  Max(0, Min(100, raw))

\* precip > 0 (False for nan)
IsPositive(f) == f.cls \in {"num", "inf"} /\ f.num > 0

\* line 71 with ">=" for ">"
RainScoreNonNegative(precip) ==
    IF precip.cls \in {"num", "inf"} /\ precip.num >= 0 THEN 1 ELSE 0

\* line 71
RainScore(precip) == IF IsPositive(precip) THEN 1 ELSE 0

compute_hour_conditions(hour_entry) ==
    LET cv     == CloudVals(hour_entry)
        precip == Precip(hour_entry)
    IN  [sky_score  |-> SkyScore(cv),
         rain_score |-> RainScore(precip),
         details    |-> [nubes_altas |-> cv.alta, nubes_medias |-> cv.media,
                         nubes_bajas |-> cv.baja, precipitacion |-> precip]]

----------------------------------------------------------------------------
(* send_telegram_message, lines 40-48                                      *)

\* what requests.post and the response can do
NotifierOutcomes ==
    {[transport |-> "ok", status_ok |-> s, body_json |-> j] : s, j \in BOOLEAN}
    \cup {[transport |-> t, status_ok |-> FALSE, body_json |-> FALSE] :
             t \in {"ConnectionError", "Timeout"}}

LogRec(kind, hours) == [kind |-> kind, hours |-> hours]

\* the log records written and the exception that leaves the function
send_telegram_message(o) ==
    IF o.transport # "ok"
    THEN [logs |-> <<>>, exc |-> o.transport]                       \* line 43
    ELSE [logs |-> IF o.status_ok THEN <<>>
                   ELSE <<LogRec("telegram_error", <<>>)>>,         \* lines 44-47
          exc  |-> IF o.body_json THEN "None" ELSE "JSONDecodeError"] \* line 48

----------------------------------------------------------------------------
(* analyze_day_forecast, lines 112-195                                     *)

\* datetime.fromisoformat(d['fecha']).date()
FechaDate(d) == d.fecha.day

\* line 118 without the date test
FindDiaAnyDate(dias, date) == IF dias # <<>> THEN dias[1] ELSE None

\* line 118
FindDia(dias, date) ==
    IF \E i \in 1..Len(dias) : FechaDate(dias[i]) = date
    THEN dias[CHOOSE i \in 1..Len(dias) :
                 /\ FechaDate(dias[i]) = date
                 /\ \A j \in 1..(i - 1) : FechaDate(dias[j]) # date]
    ELSE None

\* d.get(key, default).split(":")[0], then int(): lines 124 and 125
SunHour(v, default) ==
    PyInt(PartBeforeColon(IF v.k = "str" THEN v.s ELSE default))

\* line 130
SunriseBand(orto) == Range(Max(0, orto - 1), orto + 2)

\* lines 131 and 133 without the "+1" that makes the end inclusive
SunsetBandExclusive(ocaso) == Range(ocaso - 1, Min(LastHour, ocaso + 2))

\* lines 131 and 133
SunsetBand(ocaso) == Range(ocaso - 1, Min(LastHour, ocaso + 2) + 1)

\* lines 128-135
SkyHours(now, orto, ocaso) ==
    LET picked == IF now < orto THEN SunriseBand(orto) \o SunsetBand(ocaso)
                  ELSE IF now < ocaso THEN SunsetBand(ocaso)
                  ELSE <<>>
    IN  Sorted(SeqToSet(picked))

\* lines 138-140
RainHours(now) == Range(Max(RainFloorHour, now), rain_end_hour + 1)

\* lines 145-150
HourEntry(dia, h) ==
    LET ph     == Fmt02(h)
        estado == FirstByPeriodo(dia.estadoCielo, ph)
        precip == FirstByPeriodo(dia.precipitacion, ph)
    IN  [estadoCielo   |-> IF estado # None THEN <<estado>> ELSE <<>>,
         precipitacion |-> IF precip # None THEN <<precip>>
                           ELSE <<[periodo |-> ph, value |-> Str(<<"0">>)]>>]

\* line 162
SkyAlertHours(hours, scores) ==
    SelectSeq(hours, LAMBDA h : scores[h] >= SCORE_THRESHOLD)

\* line 171 without the look-back: range(h, h+1)
AlertPairCurrentOnly(h) == Range(h, h + 1)

\* line 171: range(h-1, h+1)
AlertPair(h) == Range(h - 1, h + 1)

\* lines 165-173 without the reset of line 173
RECURSIVE RainScanNoReset(_, _, _, _, _)
RainScanNoReset(hours, scores, i, consecutive, acc) ==
    IF i > Len(hours) THEN acc
    ELSE LET h == hours[i]
         IN  IF scores[h] # 0
             THEN RainScanNoReset(hours, scores, i + 1, consecutive + 1,
                                  IF consecutive + 1 >= 2 THEN acc \o Range(h - 1, h + 1)
                                  ELSE acc)
             ELSE RainScanNoReset(hours, scores, i + 1, consecutive, acc)

\* lines 165-173: the scan over rain_hours[i..], with the counter and the list so far
RECURSIVE RainScan(_, _, _, _, _)
RainScan(hours, scores, i, consecutive, acc) ==
    IF i > Len(hours) THEN acc
    ELSE LET h == hours[i]
         IN  IF scores[h] # 0
             THEN RainScan(hours, scores, i + 1, consecutive + 1,
                           IF consecutive + 1 >= 2 THEN acc \o AlertPair(h) ELSE acc)
             ELSE RainScan(hours, scores, i + 1, 0, acc)

\* lines 165-174
RainAlertHours(hours, scores) ==
    Sorted(SeqToSet(RainScan(hours, scores, 1, 0, <<>>)))

\* line 177 looking at the sky alerts only
ShouldAlertSkyOnly(sky, rain) == sky # <<>>

\* line 177
ShouldAlert(sky, rain) == sky # <<>> \/ rain # <<>>

\* lines 178-182
Messages(sky, rain) ==
    (IF sky # <<>> THEN <<[line |-> "cielo", hours |-> sky]>> ELSE <<>>)
    \o (IF rain # <<>> THEN <<[line |-> "lluvia", hours |-> rain]>> ELSE <<>>)

----------------------------------------------------------------------------
(* Forecast payloads the run is started on                                 *)

\* width of the block of hours whose rain pattern is enumerated
RainSpan == 6

\* number of alternative day lists tried around today's record
DayListShapes == 2

NoEntry == [k |-> "noentry"]

\* per-period entries {periodo: "HH", value: ...} for hours 0..23; f[h] = NoEntry
\* leaves the hour out, f[h] = Missing gives an entry without 'value'
Entries(f) ==
    LET all == [i \in 1..24 |-> [periodo |-> Fmt02(i - 1), value |-> f[i - 1]]]
    IN  SelectSeq(all, LAMBDA e : e.value # NoEntry)

Day(day, orto, ocaso, fc, fp) ==
    [fecha |-> [day |-> day, time |-> 0], orto |-> orto, ocaso |-> ocaso,
     estadoCielo |-> Entries(fc), precipitacion |-> Entries(fp)]

HHMM(h) == Str(Fmt02(h) \o <<":", "0", "0">>)

NoneAt == [h \in 0..23 |-> NoEntry]

OtherDay == Day(2, HHMM(6), HHMM(21), NoneAt, NoneAt)

\* every (now, sunrise, sunset); high cloud on hours 0, 11, 12 and 23, low or
\* middle cloud elsewhere, no rain
WindowDay(o, c) ==
    Day(1, HHMM(o), HHMM(c),
        [h \in 0..23 |-> IF h \in {0, 11, 12, 23} THEN Str(<<"1", "7">>)
                         ELSE IF h % 2 = 0 THEN Str(<<"1", "8">>)
                         ELSE Str(<<"1", "9", "n">>)],
        NoneAt)

WindowInputs(n, dias) ==
    \E o \in 0..23, c \in 0..23 :
        /\ n \in 0..23
        /\ dias = <<WindowDay(o, c)>>

\* every rain pattern over a block of RainSpan hours, at either edge of the rain window
RainDay(R) ==
    Day(1, Missing, Missing, NoneAt,
        [h \in 0..23 |->
            IF h \in R THEN (IF h % 2 = 0 THEN Str(<<"0", ".", "1">>)
                             ELSE Str(<<"5", ".", "0">>))
            ELSE IF h % 3 = 0 THEN NoEntry
            ELSE IF h % 3 = 1 THEN Str(<<"0">>)
            ELSE Str(<<"I", "p">>)])

RainInputs(n, dias) ==
    \E b \in {7, 18} : \E R \in SUBSET (b..(b + RainSpan - 1)) :
        /\ n \in {0, 9, 20, 23}
        /\ dias = <<RainDay(R)>>

CodeValues ==
    {Str(c) : c \in DOMAIN AEMET_CLOUD_MAPPING}
    \cup {Str(<<"4", "3">>), Str(<<"1", "7", " ">>), Str(<<>>), Missing, NoEntry}

\* one sky-state code on the even hours and one on the odd hours
SkyInputs(n, dias) ==
    \E a \in CodeValues, b \in CodeValues :
    \E s \in {<<Missing, Missing>>,
              <<Str(<<"0", "6", ":", "4", "7">>), Str(<<"2", "0", ":", "5", "8">>)>>} :
        /\ n \in {0, 5, 10, 21}
        /\ dias = <<Day(1, s[1], s[2], [h \in 0..23 |-> IF h % 2 = 0 THEN a ELSE b], NoneAt)>>

SunValues ==
    {Missing, Str(<<"0", "7", ":", "1", "5">>), Str(<<"x", "x", ":", "0", "0">>),
     Str(<<>>), Str(<<"7">>), Str(<<" ", "8", ":", "0", "5">>),
     Str(<<"-", "-", ":", "-", "-">>), Str(<<"2", "0", ".", "5">>)}

\* well-formed, absent and malformed sunrise / sunset values
SunInputs(n, dias) ==
    \E o \in SunValues, c \in SunValues :
        /\ n \in {0, 12}
        /\ dias = <<Day(1, o, c, [h \in 0..23 |-> Str(<<"1", "7">>)], NoneAt)>>

PrecipValues ==
    <<Str(<<"0">>), Str(<<"0", ".", "1">>), Str(<<"5", ".", "0">>), Str(<<"I", "p">>),
      Str(<<>>), Str(<<"-", "1", ".", "5">>), Str(<<"n", "a", "n">>), Str(<<"i", "n", "f">>),
      Missing, None, NoEntry, Str(<<"1", "2">>), Str(<<"0", ".", "0">>), Str(<<".", "5">>),
      Str(<<"7", ".">>), Str(<<" ", "2", ".", "4">>), Str(<<"0", ",", "4">>)>>

\* every precipitation value on every hour, by rotation
PrecipInputs(n, dias) ==
    \E off \in 0..(Len(PrecipValues) - 1) :
        /\ n \in {0, 12}
        /\ dias = <<Day(1, Missing, Missing, NoneAt,
                        [h \in 0..23 |-> PrecipValues[((h + off) % Len(PrecipValues)) + 1]])>>

\* day lists without today's date, and today's record behind or before others
DayListInputs(n, dias) ==
    LET today == Day(1, Missing, Missing, [h \in 0..23 |-> Str(<<"1", "7">>)], NoneAt)
        twin  == Day(1, HHMM(9), HHMM(21), NoneAt, NoneAt)
    IN  \E k \in 0..DayListShapes :
        LET pre == [i \in 1..k |-> OtherDay]
        IN  /\ n \in {0, 12}
            /\ dias \in {pre, pre \o <<today>>, pre \o <<today, twin>>,
                         pre \o <<twin, today>>}

Inputs(n, dias) ==
    \/ WindowInputs(n, dias)
    \/ RainInputs(n, dias)
    \/ SkyInputs(n, dias)
    \/ SunInputs(n, dias)
    \/ PrecipInputs(n, dias)
    \/ DayListInputs(n, dias)

----------------------------------------------------------------------------
(* The run                                                                 *)

EmptyMap == [h \in {} |-> 0]

Init ==
    /\ Inputs(now_hour, forecast_json)
    /\ local_date = 1
    /\ pc = "find"
    /\ dia_obj = None
    /\ orto_hour = 0
    /\ ocaso_hour = 0
    /\ sky_hours = <<>>
    /\ rain_hours = <<>>
    /\ hourly_entries = EmptyMap
    /\ sky_scores = EmptyMap
    /\ rain_scores = EmptyMap
    /\ details = EmptyMap
    /\ sky_alert_hours = <<>>
    /\ rain_alert_hours = <<>>
    /\ sent_text = <<>>
    /\ log = <<>>
    /\ exc = "None"

\* lines 117-121
FindDay ==
    /\ pc = "find"
    /\ dia_obj' = FindDia(forecast_json, local_date)
    /\ IF dia_obj' = None
       THEN /\ log' = Append(log, LogRec("info_no_date", <<>>))
            /\ pc' = "returned"
       ELSE /\ log' = log
            /\ pc' = "sun"
    /\ UNCHANGED <<now_hour, local_date, forecast_json, orto_hour, ocaso_hour,
                   sky_hours, rain_hours, hourly_entries, sky_scores, rain_scores,
                   details, sky_alert_hours, rain_alert_hours, sent_text, exc>>

\* lines 124-125; int() raising ValueError leaves the function
ParseSun ==
    /\ pc = "sun"
    /\ LET o == SunHour(dia_obj.orto, DefaultOrto)
           c == SunHour(dia_obj.ocaso, DefaultOcaso)
       IN  /\ orto_hour' = IF o.ok THEN o.val ELSE orto_hour
           /\ ocaso_hour' = IF o.ok /\ c.ok THEN c.val ELSE ocaso_hour
           /\ exc' = IF o.ok /\ c.ok THEN exc ELSE "ValueError"
           /\ pc' = IF o.ok /\ c.ok THEN "windows" ELSE "raised"
    /\ UNCHANGED <<now_hour, local_date, forecast_json, dia_obj,
                   sky_hours, rain_hours, hourly_entries, sky_scores, rain_scores,
                   details, sky_alert_hours, rain_alert_hours, sent_text, log>>

\* lines 127-140
SelectWindows ==
    /\ pc = "windows"
    /\ sky_hours' = SkyHours(now_hour, orto_hour, ocaso_hour)
    /\ rain_hours' = RainHours(now_hour)
    /\ pc' = "score"
    /\ UNCHANGED <<now_hour, local_date, forecast_json, dia_obj, orto_hour, ocaso_hour,
                   hourly_entries, sky_scores, rain_scores,
                   details, sky_alert_hours, rain_alert_hours, sent_text, log, exc>>

\* lines 142-159
ScoreHours ==
    /\ pc = "score"
    /\ LET hs == SeqToSet(sky_hours \o rain_hours)
           he == [h \in hs |-> HourEntry(dia_obj, h)]
           r  == [h \in hs |-> compute_hour_conditions(he[h])]
       IN  /\ hourly_entries' = he
           /\ sky_scores' = [h \in hs |-> r[h].sky_score]
           /\ rain_scores' = [h \in hs |-> r[h].rain_score]
           /\ details' = [h \in hs |-> r[h].details]
    /\ pc' = "detect"
    /\ UNCHANGED <<now_hour, local_date, forecast_json, dia_obj, orto_hour, ocaso_hour,
                   sky_hours, rain_hours, sky_alert_hours, rain_alert_hours,
                   sent_text, log, exc>>

\* lines 161-174
DetectAlerts ==
    /\ pc = "detect"
    /\ sky_alert_hours' = SkyAlertHours(sky_hours, sky_scores)
    /\ rain_alert_hours' = RainAlertHours(rain_hours, rain_scores)
    /\ pc' = "alert"
    /\ UNCHANGED <<now_hour, local_date, forecast_json, dia_obj, orto_hour, ocaso_hour,
                   sky_hours, rain_hours, hourly_entries, sky_scores, rain_scores,
                   details, sent_text, log, exc>>

\* lines 176-183, with the whole of send_telegram_message
SendAlerts ==
    /\ pc = "alert"
    /\ IF ShouldAlert(sky_alert_hours, rain_alert_hours)
       THEN \E o \in NotifierOutcomes :
               LET r == send_telegram_message(o)
               IN  /\ sent_text' = Append(sent_text, Messages(sky_alert_hours, rain_alert_hours))
                   /\ log' = log \o r.logs
                   /\ exc' = r.exc
                   /\ pc' = IF r.exc = "None" THEN "techlog" ELSE "raised"
       ELSE /\ pc' = "techlog"
            /\ UNCHANGED <<sent_text, log, exc>>
    /\ UNCHANGED <<now_hour, local_date, forecast_json, dia_obj, orto_hour, ocaso_hour,
                   sky_hours, rain_hours, hourly_entries, sky_scores, rain_scores,
                   details, sky_alert_hours, rain_alert_hours>>

\* lines 185-191 (the plot of lines 194-195 changes nothing that is modelled)
TechLog ==
    /\ pc = "techlog"
    /\ log' = Append(log, LogRec("tech", Sorted(DOMAIN hourly_entries)))
    /\ pc' = "returned"
    /\ UNCHANGED <<now_hour, local_date, forecast_json, dia_obj, orto_hour, ocaso_hour,
                   sky_hours, rain_hours, hourly_entries, sky_scores, rain_scores,
                   details, sky_alert_hours, rain_alert_hours, sent_text, exc>>

\* lines 207-211: the except clause of the __main__ block
HandleException ==
    /\ pc = "raised"
    /\ log' = Append(log, LogRec("exception", <<>>))
    /\ pc' = "handled"
    /\ UNCHANGED <<now_hour, local_date, forecast_json, dia_obj, orto_hour, ocaso_hour,
                   sky_hours, rain_hours, hourly_entries, sky_scores, rain_scores,
                   details, sky_alert_hours, rain_alert_hours, sent_text, exc>>

Next ==
    \/ FindDay
    \/ ParseSun
    \/ SelectWindows
    \/ ScoreHours
    \/ DetectAlerts
    \/ SendAlerts
    \/ TechLog
    \/ HandleException

Spec == Init /\ [][Next]_vars

TypeOK ==
    /\ pc \in {"find", "sun", "windows", "score", "detect", "alert", "techlog",
               "returned", "raised", "handled"}
    /\ exc \in {"None", "ValueError", "ConnectionError", "Timeout", "JSONDecodeError"}
    /\ Len(sent_text) <= 1

----------------------------------------------------------------------------
(* How far the run got                                                     *)

Finished == pc \in {"returned", "handled"}

SunParsed == dia_obj # None /\ exc # "ValueError" /\ pc \notin {"find", "sun"}

WindowsDone == SunParsed /\ pc # "windows"

Scored == WindowsDone /\ pc # "score"

Detected == Scored /\ pc # "detect"

AlertsHandled == Detected /\ pc # "alert"

TechLogged == \E i \in 1..Len(log) : log[i].kind = "tech"

\* the value of the day's entry for hour h in one of its per-period lists,
\* NoEntry when the list has none (h in 0..23)
ValueAt(entries, h) ==
    LET ph == <<Digits[(h \div 10) + 1], Digits[(h % 10) + 1]>>
    IN  IF h \in 0..23 /\ \E i \in 1..Len(entries) : entries[i].periodo = ph
        THEN (CHOOSE e \in SeqToSet(entries) : e.periodo = ph).value
        ELSE NoEntry

----------------------------------------------------------------------------
(* Claims                                                                  *)

\* C1: once the alert step of a run on today's record is over,
\* send_telegram_message has been called exactly once if sky_alert_hours or
\* rain_alert_hours is non-empty and not at all if both are empty; before that
\* step it has not been called.
C1_NotifierOnceIffAlert ==
    IF AlertsHandled
    THEN Len(sent_text) = (IF sky_alert_hours = <<>> /\ rain_alert_hours = <<>> THEN 0 ELSE 1)
    ELSE Len(sent_text) = 0

C1_Witness ==
    /\ pc = "returned"
    /\ sky_alert_hours = <<>>
    /\ rain_alert_hours # <<>>
    /\ Len(sent_text) = 1

\* C2: a run on today's record that got past the sunrise/sunset parsing ends
\* with the technical log written, whatever the Notifier did (non-success
\* response, transport error, timeout).
C2_TechLogDespiteDeliveryFailure ==
    (Finished /\ SunParsed) => TechLogged

\* sunrise / sunset texts of the model whose part before ':' is not an integer
MalformedSunValues ==
    {Str(<<"x", "x", ":", "0", "0">>), Str(<<>>), Str(<<"-", "-", ":", "-", "-">>),
     Str(<<"2", "0", ".", "5">>)}

\* C3: when orto or ocaso is absent or malformed the run does not raise, and
\* it goes on with hour 7 for sunrise and hour 17 for sunset.
C3_SunDefaultsWithoutRaising ==
    (dia_obj # None /\ pc \notin {"find", "sun"}) =>
        /\ exc # "ValueError"
        /\ dia_obj.orto \in MalformedSunValues \cup {Missing} => orto_hour = 7
        /\ dia_obj.ocaso \in MalformedSunValues \cup {Missing} => ocaso_hour = 17

NoDuplicates(s) == \A i, j \in 1..Len(s) : s[i] = s[j] => i = j

\* C4: with sunrise and sunset hours in 0..23 (now.hour always is), every hour
\* of sky_hours and of rain_hours lies in 0..23 and occurs once.
C4_WindowHoursInDayRange ==
    (orto_hour \in 0..23 /\ ocaso_hour \in 0..23) =>
        /\ \A i \in 1..Len(sky_hours) : sky_hours[i] \in 0..23
        /\ \A i \in 1..Len(rain_hours) : rain_hours[i] \in 0..23
        /\ NoDuplicates(sky_hours)
        /\ NoDuplicates(rain_hours)

\* hour h of rain_hours has rain_score 1
Rainy(h) == h \in SeqToSet(rain_hours) /\ rain_scores[h] = 1

\* h, h+1, h+2, h+3 is a run of exactly four rain hours inside rain_hours
RainRunOfFour(h) ==
    /\ \A k \in h..(h + 3) : Rainy(k)
    /\ ~Rainy(h - 1)
    /\ ~Rainy(h + 4)

\* C5 as stated: of a run of four rain hours, hours 2, 3 and 4 are rain-alert
\* hours and hour 1 is not.
C5_FirstHourOfRunNotMarked ==
    Detected =>
        \A h \in 0..23 : RainRunOfFour(h) =>
            /\ {h + 1, h + 2, h + 3} \subseteq SeqToSet(rain_alert_hours)
            /\ h \notin SeqToSet(rain_alert_hours)

\* C5 amended: of a run of four rain hours, all four hours are rain-alert hours.
C5_WholeRunOfFourMarked ==
    Detected =>
        \A h \in 0..23 : RainRunOfFour(h) =>
            h..(h + 3) \subseteq SeqToSet(rain_alert_hours)

C5_Witness ==
    /\ pc = "returned"
    /\ \E h \in 0..23 : RainRunOfFour(h) /\ h \in SeqToSet(rain_alert_hours)

\* C6: sky_hours is the sunrise band [max(0,sunrise-1) .. sunrise+1] together
\* with the sunset band [sunset-1 .. min(23,sunset+2)] when now < sunrise, the
\* sunset band alone when sunrise <= now < sunset, and empty otherwise;
\* rain_hours is max(8, now) .. 22, empty when now is 23.
C6_WindowSelection ==
    WindowsDone =>
        LET lo      == IF orto_hour - 1 > 0 THEN orto_hour - 1 ELSE 0
            hi      == IF ocaso_hour + 2 < 23 THEN ocaso_hour + 2 ELSE 23
            sunrise == lo..(orto_hour + 1)
            sunset  == (ocaso_hour - 1)..hi
            start   == IF now_hour > 8 THEN now_hour ELSE 8
        IN  /\ now_hour < orto_hour => SeqToSet(sky_hours) = sunrise \cup sunset
            /\ (orto_hour <= now_hour /\ now_hour < ocaso_hour) =>
                   SeqToSet(sky_hours) = sunset
            /\ (orto_hour <= now_hour /\ ocaso_hour <= now_hour) => sky_hours = <<>>
            /\ SeqToSet(rain_hours) = start..22
            /\ now_hour = 23 => rain_hours = <<>>

C6_Witness ==
    /\ pc = "returned"
    /\ now_hour = 5 /\ orto_hour = 7 /\ ocaso_hour = 20
    /\ sky_hours = <<6, 7, 8, 19, 20, 21, 22>>
    /\ rain_hours = <<8, 9, 10, 11, 12, 13, 14, 15, 16, 17, 18, 19, 20, 21, 22>>

\* the cloud fractions (tenths) the table gives for the sky-state code of hour
\* h of today's record, zero when there is no code or the table lacks it
TableFractions(h) ==
    LET v == ValueAt(dia_obj.estadoCielo, h)
    IN  IF v.k = "str" /\ v.s \in DOMAIN AEMET_CLOUD_MAPPING
        THEN AEMET_CLOUD_MAPPING[v.s]
        ELSE [alta |-> 0, media |-> 0, baja |-> 0]

\* clamp(0.6*high + 0.3*mid - 0.8*low, 0, 1) in hundredths
ExpectedSkyScore(h) ==
    LET f   == TableFractions(h)
        raw == 6 * f.alta + 3 * f.media - 8 * f.baja
    IN  IF raw < 0 THEN 0 ELSE IF raw > 100 THEN 100 ELSE raw

KnownCode(h) ==
    LET v == ValueAt(dia_obj.estadoCielo, h)
    IN  v.k = "str" /\ v.s \in DOMAIN AEMET_CLOUD_MAPPING

\* C7: sky_alert_hours is exactly the hours of sky_hours whose clamped score
\* 0.6*high + 0.3*mid - 0.8*low is at least 0.5; an hour with no code or an
\* unknown code is never one, nor is an hour outside sky_hours.
C7_SkyAlertHours ==
    Detected =>
        /\ SeqToSet(sky_alert_hours) =
               {h \in SeqToSet(sky_hours) : ExpectedSkyScore(h) >= 50}
        /\ \A h \in SeqToSet(sky_alert_hours) : KnownCode(h)

C7_Witness ==
    /\ pc = "returned"
    /\ sky_alert_hours # <<>>
    /\ \E h \in SeqToSet(sky_hours) : ~KnownCode(h) /\ h \notin SeqToSet(sky_alert_hours)
    /\ \E h \in DOMAIN sky_scores :
           h \notin SeqToSet(sky_hours) /\ ExpectedSkyScore(h) >= 50

\* precipitation texts of the model that denote a number greater than 0
PositivePrecipValues ==
    {Str(<<"0", ".", "1">>), Str(<<"5", ".", "0">>), Str(<<"i", "n", "f">>),
     Str(<<"1", "2">>), Str(<<".", "5">>), Str(<<"7", ".">>), Str(<<" ", "2", ".", "4">>)}

\* C8: scoring the hours raises nothing, and every rain_score is 1 when the
\* hour's precipitation value is a number greater than 0 and 0 when it is 0,
\* absent or unparsable.
C8_RainScoreBinary ==
    Scored =>
        /\ pc = "detect" => exc = "None"
        /\ \A h \in DOMAIN rain_scores :
               rain_scores[h] =
                   (IF ValueAt(dia_obj.precipitacion, h) \in PositivePrecipValues
                    THEN 1 ELSE 0)

C8_Witness ==
    /\ pc = "detect"
    /\ \E h \in DOMAIN rain_scores : rain_scores[h] = 1
    /\ \E h \in DOMAIN rain_scores :
           ValueAt(dia_obj.precipitacion, h) = Str(<<"I", "p">>) /\ rain_scores[h] = 0
    /\ \E h \in DOMAIN rain_scores :
           ValueAt(dia_obj.precipitacion, h) = None /\ rain_scores[h] = 0
    /\ \E h \in DOMAIN rain_scores :
           ValueAt(dia_obj.precipitacion, h) = NoEntry /\ rain_scores[h] = 0

\* C9: when no day of the payload carries today's date, the run returns after
\* the informational note: nothing raised, no hour scored, no message sent, no
\* technical log.
C9_NoDayEndsEarly ==
    (pc # "find" /\ \A i \in 1..Len(forecast_json) : forecast_json[i].fecha.day # local_date) =>
        /\ pc = "returned"
        /\ exc = "None"
        /\ DOMAIN sky_scores = {} /\ DOMAIN rain_scores = {}
        /\ sent_text = <<>>
        /\ log = <<[kind |-> "info_no_date", hours |-> <<>>]>>

C9_Witness ==
    /\ pc = "returned"
    /\ forecast_json # <<>>
    /\ dia_obj = None

\* C10: rain_alert_hours is exactly the rain hours of rain_hours that have a
\* rain hour of rain_hours next to them; a lone rain hour is never one, and
\* rain_alert_hours is a subset of rain_hours.
C10_RainAlertHours ==
    Detected =>
        /\ SeqToSet(rain_alert_hours) =
               {h \in SeqToSet(rain_hours) : Rainy(h) /\ (Rainy(h - 1) \/ Rainy(h + 1))}
        /\ SeqToSet(rain_alert_hours) \subseteq SeqToSet(rain_hours)

C10_Witness ==
    /\ pc = "returned"
    /\ rain_alert_hours # <<>>
    /\ \E h \in SeqToSet(rain_hours) :
           Rainy(h) /\ ~Rainy(h - 1) /\ ~Rainy(h + 1) /\ h \notin SeqToSet(rain_alert_hours)
====
